---- MODULE Spec2Model ----
(***************************************************************************)
(* docker-worlds: the one-shot world scripts (world-launch.js, the older   *)
(* launch script, world-stop.js) and the interactive world portal, run     *)
(* against a container runtime.                                            *)
(*                                                                         *)
(* A script run is a process `proc` that advances through the points at    *)
(* which the script talks to the file system or to docker.  The container  *)
(* runtime is the pair (images, running); `calls` is the trace of the      *)
(* external programs the current process has invoked.  The portal is the   *)
(* record `portal`; the world-stop.js it runs under execSync is `proc`.    *)
(***************************************************************************)
EXTENDS Integers, Sequences, FiniteSets, TLC

VARIABLES
    fs,        \* world directories under the working directory
    images,    \* images present in the local image store
    running,   \* container id -> its image while it runs ("" = id not yet used,
               \* "gone" = exited or stopped; docker never reuses an id)
    proc,      \* the script process (program counter and locals)
    calls,     \* external programs invoked by the current process, in order
    prev,      \* summary of the last finished script run of the session
    dirty,     \* a container was created since the last world-stop.js run started
    portal     \* the world portal: its WorldPortal object, screen, timers and children

vars == <<fs, images, running, proc, calls, prev, dirty, portal>>

----------------------------------------------------------------------------
(* Bounds and program constants *)

MaxContainers == 3

DefaultPort == 8080
ContainerPort == 80

ContainerIds == 1..MaxContainers

DemoImage == "ghcr.io/your-namespace/demo"
OtherImage == "x/other"
Images == {DemoImage, OtherImage}

WorldTypes == {"web", "cli", "api"}

\* optional JSON fields are sequences of length 0 (absent) or 1
WorldPorts == {<<>>, <<9000>>, <<0>>}
VolumeMounts == {<<>>, <<TRUE>>, <<FALSE>>}

Cwd == <<"worlds">>
WorldDirs == {"demo"}

\* world.json contents
Worlds ==
    [name : {"demo"}, image : {DemoImage}, type : WorldTypes,
     port : WorldPorts, volumeMount : VolumeMounts]

NoWorld ==
    [name |-> "", image |-> "", type |-> "", port |-> <<>>, volumeMount |-> <<>>]

\* a directory: its world.json (missing, unparsable or a record) and its Dockerfile
DirEntries ==
    [descriptor : {"ok"}, world : Worlds, dockerfile : BOOLEAN]
      \cup [descriptor : {"missing", "malformed"}, world : {NoWorld}, dockerfile : BOOLEAN]

----------------------------------------------------------------------------
(* Command lines.  An argument is [flag, val]: a positional argument has   *)
(* flag "", `--port=7000` is [flag |-> "--port", val |-> "7000"].          *)

Positional(name) == [flag |-> "", val |-> name]
DetachLong == [flag |-> "--detach", val |-> ""]
DetachShort == [flag |-> "-d", val |-> ""]
PortArg(s) == [flag |-> "--port", val |-> s]

DirArgs == {<<>>, <<Positional("demo")>>, <<Positional("ghost")>>}
DetachArgs == {<<>>, <<DetachLong>>, <<DetachShort>>}
PortArgs == {<<>>, <<PortArg("7000")>>}

LaunchCommandLines == {d \o t \o p : d \in DirArgs, t \in DetachArgs, p \in PortArgs}
StopCommandLines == DirArgs

\* args.includes(x)
Includes(args, x) == \E i \in 1..Len(args) : args[i] = x

\* args.find(arg => !arg.startsWith('--') && !arg.startsWith('-')) || '.'
InputDir(args) ==
    LET pos == {i \in 1..Len(args) : args[i].flag = ""}
    IN  IF pos = {} THEN "."
        ELSE args[CHOOSE i \in pos : \A j \in pos : i <= j].val

\* getArg(flag): the text after '=' of the first `flag=...` argument, or null (<<>>)
GetArg(args, flag) ==
    LET hit == {i \in 1..Len(args) : args[i].flag = flag}
    IN  IF hit = {} THEN <<>>
        ELSE <<args[CHOOSE i \in hit : \A j \in hit : i <= j].val>>

\* path.resolve(inputDir) against the working directory
Resolve(inputDir) == IF inputDir = "." THEN Cwd ELSE Append(Cwd, inputDir)

\* path.join(dir, file)
Join(dir, file) == Append(dir, file)

\* the directory entry a path of the form <Cwd>/<dir>/<file> lies in, if any
DirOf(path) ==
    {d \in DOMAIN fs : Len(path) = Len(Cwd) + 2 /\ SubSeq(path, 1, Len(Cwd) + 1) = Append(Cwd, d)}

\* fs.existsSync(path) for world.json and Dockerfile paths
ExistsSync(path) ==
    \E d \in DirOf(path) :
        \/ path[Len(path)] = "world.json" /\ fs[d].descriptor # "missing"
        \/ path[Len(path)] = "Dockerfile" /\ fs[d].dockerfile

\* parseInt of the port texts used on the command line
ParseInt(s) == CASE s = "7000" -> 7000 [] s = "9000" -> 9000

\* parseInt(portOverride || world.port || 8080)
LaunchPort(portOverride, world) ==
    IF portOverride # <<>> /\ portOverride[1] # "" THEN ParseInt(portOverride[1])
    ELSE IF world.port # <<>> /\ world.port[1] # 0 THEN world.port[1]
    ELSE DefaultPort

\* JavaScript truthiness of world.volumeMount
Truthy(opt) == opt # <<>> /\ opt[1] = TRUE

----------------------------------------------------------------------------
(* The process *)

Idle ==
    [script |-> "none", pc |-> "idle", args |-> <<>>, worldDir |-> <<>>,
     world |-> NoWorld, launchPort |-> 0, detached |-> FALSE,
     dockerArgs |-> <<>>, child |-> "none", cid |-> 0, timer |-> "none",
     code |-> <<>>, containers |-> <<>>, idx |-> 0, probed |-> FALSE, clean |-> FALSE,
     atProbe |-> {},
     warned |-> {}, reported |-> <<>>, lines |-> <<>>,
     exit |-> <<>>, err |-> "", said |-> ""]

\* what the session remembers of the script run that ended last
NoPrev ==
    [script |-> "none", worldDir |-> <<>>, probed |-> FALSE, exit |-> <<>>,
     issued |-> {}, failed |-> {}]

Call(op, arg, ok) == [op |-> op, arg |-> arg, ok |-> ok]

\* process.exit(code), or the end of the script
Exit(p, code, err) == [p EXCEPT !.pc = "exited", !.exit = <<code>>, !.err = err]

Flag(f) == [f |-> f, v |-> <<>>]
Opt(f, v) == [f |-> f, v |-> v]

HasFlag(dockerArgs, f) == \E i \in 1..Len(dockerArgs) : dockerArgs[i].f = f

Issued(op) == {i \in 1..Len(calls) : calls[i].op = op}

Gone == "gone"

\* docker gives every new container a fresh id: the next unused one
FreeIds ==
    LET unused == {c \in ContainerIds : running[c] = ""}
    IN  {c \in unused : \A d \in unused : c <= d}

\* JSON.parse(fs.readFileSync(configPath)): the descriptor record of the directory
ReadWorld(configPath) ==
    IF DirOf(configPath) = {} THEN NoWorld
    ELSE fs[CHOOSE d \in DirOf(configPath) : TRUE].world

\* JSON.parse throws on an unparsable world.json
ParseThrows(configPath) ==
    \E d \in DirOf(configPath) : fs[d].descriptor = "malformed"

\* faulty variant: the existence check is skipped
DescriptorMissingIgnored(configPath) == FALSE

\* if (!fs.existsSync(configPath)) ... process.exit(1)
DescriptorMissing(configPath) == ~ExistsSync(configPath)

----------------------------------------------------------------------------
(* The container runtime, as the scripts see it *)

\* `docker image inspect <image>` exits 0 only for an image in the local store;
\* it can also fail there (daemon unreachable)
InspectOutcomes(image) == {ok \in BOOLEAN : ok => image \in images}

\* the containers of an image that are running now
Instances(image) == {c \in ContainerIds : running[c] = image}

\* `docker run`: a container with a free id starts, or the run fails (cid 0)
RunOutcomes == FreeIds \cup {0}

Started(cid, image) ==
    IF cid = 0 THEN running ELSE [running EXCEPT ![cid] = image]

----------------------------------------------------------------------------
(* world-launch.js *)

DetachRequested(args) == Includes(args, DetachLong) \/ Includes(args, DetachShort)

\* faulty variant: the detach request is kept for a cli world
WorldLaunchDetachedAsRequested(args, type) == DetachRequested(args)

\* let detached = ...; if (world.type === 'cli') detached = false
WorldLaunchDetached(args, type) ==
    IF type = "cli" THEN FALSE ELSE DetachRequested(args)

\* faulty variant: the build is started without looking for a Dockerfile
EnsureImagePlanNoCheck(inspectOk, worldDir) == IF inspectOk THEN "run" ELSE "build"

\* faulty variant: the image is built whenever there is a Dockerfile, also when the
\* image check succeeded
EnsureImagePlanAlwaysBuild(inspectOk, worldDir) ==
    IF ExistsSync(Join(worldDir, "Dockerfile")) THEN "build"
    ELSE IF inspectOk THEN "run" ELSE "abort"

\* the catch branch of the image check: build when a Dockerfile exists, else give up
EnsureImagePlan(inspectOk, worldDir) ==
    IF inspectOk THEN "run"
    ELSE IF ExistsSync(Join(worldDir, "Dockerfile")) THEN "build"
    ELSE "abort"

\* faulty variant: the build status is not looked at
BuildAbortsNever(status) == FALSE

\* if (buildResult.status !== 0) ... process.exit(1)
BuildAborts(status) == status # 0

\* faulty variant: a web world is always bind-mounted, whatever volumeMount says
WorldLaunchTypeArgsAlwaysMount(world, launchPort, absoluteDir) ==
    IF world.type = "web" THEN
        <<Opt("-p", <<launchPort, ContainerPort>>), Opt("-v", <<absoluteDir, "/app">>)>>
    ELSE IF world.type = "cli" THEN <<Flag("-it")>>
    ELSE <<>>

\* the arguments pushed for the world's type; <<>> for an unknown type
WorldLaunchTypeArgs(world, launchPort, absoluteDir) ==
    IF world.type = "web" THEN
        <<Opt("-p", <<launchPort, ContainerPort>>)>>
          \o (IF Truthy(world.volumeMount)
               THEN <<Opt("-v", <<absoluteDir, "/app">>)>> ELSE <<>>)
    ELSE IF world.type = "cli" THEN <<Flag("-it")>>
    ELSE <<>>

\* faulty variant: an unknown type is accepted (no else branch)
KnownTypeAny(type) == TRUE

KnownType(type) == type = "web" \/ type = "cli"

\* const dockerArgs = ['run', '--rm']; ...; if (detached) push('-d'); push(image)
WorldLaunchDockerArgs(world, launchPort, absoluteDir, detached) ==
    <<Flag("run"), Flag("--rm")>>
      \o WorldLaunchTypeArgs(world, launchPort, absoluteDir)
      \o (IF detached THEN <<Flag("-d")>> ELSE <<>>)
      \o <<Opt("IMAGE", <<world.image>>)>>

StartWorldLaunch(args) ==
    /\ proc.script = "none"
    /\ proc' = [Idle EXCEPT !.script = "world-launch", !.pc = "load", !.args = args]
    /\ calls' = <<>>
    /\ prev' = NoPrev
    /\ UNCHANGED <<fs, images, running, dirty, portal>>

WorldLaunchLoad ==
    /\ proc.script = "world-launch" /\ proc.pc = "load"
    /\ LET worldDir == Resolve(InputDir(proc.args))
           configPath == Join(worldDir, "world.json")
           world == ReadWorld(configPath)
       IN  proc' =
             IF DescriptorMissing(configPath) THEN Exit(proc, 1, "MissingDescriptor")
             ELSE IF ParseThrows(configPath) THEN Exit(proc, 1, "SyntaxError")
             ELSE [proc EXCEPT
                     !.pc = "inspect", !.worldDir = worldDir, !.world = world,
                     !.launchPort = LaunchPort(GetArg(proc.args, "--port"), world),
                     !.detached = WorldLaunchDetached(proc.args, world.type)]
    /\ UNCHANGED <<fs, images, running, calls, prev, dirty, portal>>

WorldLaunchInspect ==
    /\ proc.script = "world-launch" /\ proc.pc = "inspect"
    /\ \E ok \in InspectOutcomes(proc.world.image) :
         LET plan == EnsureImagePlan(ok, proc.worldDir)
         IN  /\ calls' = Append(calls, Call("inspect", <<proc.world.image>>, ok))
             /\ proc' = IF plan = "abort" THEN Exit(proc, 1, "MissingBuildContext")
                        ELSE [proc EXCEPT !.pc = plan]
    /\ UNCHANGED <<fs, images, running, prev, dirty, portal>>

WorldLaunchBuild ==
    /\ proc.script = "world-launch" /\ proc.pc = "build"
    /\ \E status \in {0, 1} :
         /\ calls' = Append(calls, Call("build", <<proc.world.image>>, status = 0))
         /\ images' = IF status = 0 THEN images \cup {proc.world.image} ELSE images
         /\ proc' = IF BuildAborts(status) THEN Exit(proc, 1, "BuildFailed")
                    ELSE [proc EXCEPT !.pc = "run"]
    /\ UNCHANGED <<fs, running, prev, dirty, portal>>

\* faulty variant: the browser is scheduled for every world type
BrowserTimerAlways(type) == "pending"

\* if (world.type === 'web') setTimeout(() => openBrowser(url), 1000)
BrowserTimer(type) == IF type = "web" THEN "pending" ELSE "none"

\* lines 74-101: build the arguments, spawn docker, schedule the browser
WorldLaunchRun ==
    /\ proc.script = "world-launch" /\ proc.pc = "run"
    /\ IF ~KnownType(proc.world.type)
       THEN /\ proc' = Exit(proc, 1, "UnknownWorldType")
            /\ UNCHANGED <<running, calls, dirty>>
       ELSE \E cid \in RunOutcomes :
              LET dockerArgs == WorldLaunchDockerArgs(proc.world, proc.launchPort,
                                                     proc.worldDir, proc.detached)
              IN  /\ calls' = Append(calls, Call("run", dockerArgs, cid # 0))
                  /\ running' = Started(cid, proc.world.image)
                  /\ dirty' = (dirty \/ cid # 0)
                  /\ proc' = [proc EXCEPT
                                !.pc = "running", !.dockerArgs = dockerArgs,
                                !.child = "running", !.cid = cid,
                                !.timer = BrowserTimer(proc.world.type)]
    /\ UNCHANGED <<fs, images, prev, portal>>

\* the exit code docker run ends with: non-zero when the container could not be
\* started, zero when it was started detached, else the code of the container
RunStatuses(started, detached) ==
    IF ~started THEN {1} ELSE IF detached THEN {0} ELSE {0, 1}

\* faulty variant: a non-zero code of a foreground docker run fails the script
RunResultExitPropagates(status, detached) == IF status # 0 /\ ~detached THEN 1 ELSE 0

\* both scripts only print the code of docker run and go on to their end
RunResultExit(status, detached) == 0

\* setTimeout(() => openBrowser(url), 1000): spawning the opener can fail, and the
\* child's 'error' event has no listener
WorldLaunchOpenBrowser ==
    /\ proc.script = "world-launch" /\ proc.pc = "running" /\ proc.timer = "pending"
    /\ \E ok \in BOOLEAN :
         /\ calls' = Append(calls, Call("open", <<proc.launchPort>>, ok))
         /\ proc' = IF ~ok THEN Exit([proc EXCEPT !.timer = "fired"], 1, "SpawnError")
                    ELSE IF proc.child = "exited"
                         THEN Exit([proc EXCEPT !.timer = "fired"], 0, "")
                    ELSE [proc EXCEPT !.timer = "fired"]
    /\ UNCHANGED <<fs, images, running, prev, dirty, portal>>

\* dockerProc.on('exit', ...): docker run returns at once when detached or when the
\* container did not start, else when the container has exited
WorldLaunchDockerExit ==
    /\ proc.script = "world-launch" /\ proc.pc = "running" /\ proc.child = "running"
    /\ proc.detached \/ proc.cid = 0
    /\ \E code \in RunStatuses(\E i \in Issued("run") : calls[i].ok, proc.detached) :
         LET p == [proc EXCEPT !.child = "exited", !.code = <<code>>,
                               !.said = IF proc.detached THEN "detached-running"
                                        ELSE "docker-exited"]
         IN  proc' = IF proc.timer = "pending" THEN p
                     ELSE Exit(p, RunResultExit(code, proc.detached), "")
    /\ UNCHANGED <<fs, images, running, calls, prev, dirty, portal>>

\* a running container exits (the foreground docker run of the process returns)
ContainerExits(c) ==
    /\ running[c] \in Images
    /\ running' = [running EXCEPT ![c] = Gone]
    /\ proc' = IF proc.pc \in {"running", "waiting"} /\ ~proc.detached /\ proc.cid = c
               THEN [proc EXCEPT !.cid = 0] ELSE proc
    /\ UNCHANGED <<fs, images, calls, prev, dirty, portal>>

----------------------------------------------------------------------------
(* The older launch script: no volume mount, no browser, a synchronous run *)

\* const detached = args.includes('--detach') || args.includes('-d')
LaunchDetached(args) == DetachRequested(args)

LaunchTypeArgs(world, launchPort) ==
    IF world.type = "web" THEN <<Opt("-p", <<launchPort, ContainerPort>>)>>
    ELSE IF world.type = "cli" THEN <<Flag("-it")>>
    ELSE <<>>

LaunchDockerArgs(world, launchPort, detached) ==
    <<Flag("run"), Flag("--rm")>>
      \o LaunchTypeArgs(world, launchPort)
      \o (IF detached THEN <<Flag("-d")>> ELSE <<>>)
      \o <<Opt("IMAGE", <<world.image>>)>>

StartLaunch(args) ==
    /\ proc.script = "none"
    /\ proc' = [Idle EXCEPT !.script = "launch", !.pc = "load", !.args = args]
    /\ calls' = <<>>
    /\ prev' = NoPrev
    /\ UNCHANGED <<fs, images, running, dirty, portal>>

LaunchLoad ==
    /\ proc.script = "launch" /\ proc.pc = "load"
    /\ LET worldDir == Resolve(InputDir(proc.args))
           configPath == Join(worldDir, "world.json")
           world == ReadWorld(configPath)
       IN  proc' =
             IF DescriptorMissing(configPath) THEN Exit(proc, 1, "MissingDescriptor")
             ELSE IF ParseThrows(configPath) THEN Exit(proc, 1, "SyntaxError")
             ELSE [proc EXCEPT
                     !.pc = "inspect", !.worldDir = worldDir, !.world = world,
                     !.launchPort = LaunchPort(GetArg(proc.args, "--port"), world),
                     !.detached = LaunchDetached(proc.args)]
    /\ UNCHANGED <<fs, images, running, calls, prev, dirty, portal>>

LaunchInspect ==
    /\ proc.script = "launch" /\ proc.pc = "inspect"
    /\ \E ok \in InspectOutcomes(proc.world.image) :
         LET plan == EnsureImagePlan(ok, proc.worldDir)
         IN  /\ calls' = Append(calls, Call("inspect", <<proc.world.image>>, ok))
             /\ proc' = IF plan = "abort" THEN Exit(proc, 1, "MissingBuildContext")
                        ELSE [proc EXCEPT !.pc = plan]
    /\ UNCHANGED <<fs, images, running, prev, dirty, portal>>

LaunchBuild ==
    /\ proc.script = "launch" /\ proc.pc = "build"
    /\ \E status \in {0, 1} :
         /\ calls' = Append(calls, Call("build", <<proc.world.image>>, status = 0))
         /\ images' = IF status = 0 THEN images \cup {proc.world.image} ELSE images
         /\ proc' = IF BuildAborts(status) THEN Exit(proc, 1, "BuildFailed")
                    ELSE [proc EXCEPT !.pc = "run"]
    /\ UNCHANGED <<fs, running, prev, dirty, portal>>

\* lines 60-77: build the arguments and enter spawnSync('docker', dockerArgs)
LaunchRun ==
    /\ proc.script = "launch" /\ proc.pc = "run"
    /\ IF ~KnownType(proc.world.type)
       THEN /\ proc' = Exit(proc, 1, "UnknownWorldType")
            /\ UNCHANGED <<running, calls, dirty>>
       ELSE \E cid \in RunOutcomes :
              LET dockerArgs == LaunchDockerArgs(proc.world, proc.launchPort, proc.detached)
              IN  /\ calls' = Append(calls, Call("run", dockerArgs, cid # 0))
                  /\ running' = Started(cid, proc.world.image)
                  /\ dirty' = (dirty \/ cid # 0)
                  /\ proc' = [proc EXCEPT !.pc = "waiting", !.dockerArgs = dockerArgs,
                                          !.child = IF cid = 0 THEN "failed" ELSE "running",
                                          !.cid = cid]
    /\ UNCHANGED <<fs, images, prev, portal>>

\* lines 77-83: spawnSync returns (at once when detached or when the container did
\* not start, else when the container has exited); the script ends
LaunchRunReturns ==
    /\ proc.script = "launch" /\ proc.pc = "waiting"
    /\ proc.detached \/ proc.cid = 0
    /\ \E status \in {0, 1} :
         /\ proc.child = "failed" => status # 0
         /\ (proc.detached /\ proc.child = "running") => status = 0
         /\ proc' = Exit([proc EXCEPT
                            !.child = "exited", !.code = <<status>>,
                            !.said = IF status # 0 /\ ~proc.detached THEN "warn-exit-code"
                                     ELSE IF proc.detached THEN "detached-running"
                                     ELSE "exited-successfully"],
                          RunResultExit(status, proc.detached), "")
    /\ UNCHANGED <<fs, images, running, calls, prev, dirty, portal>>

----------------------------------------------------------------------------
(* world-stop.js *)

\* the sequences that list every element of S once
Orderings(S) ==
    {q \in [1..Cardinality(S) -> S] : \A x \in S : \E i \in DOMAIN q : q[i] = x}

\* faulty variant: docker ps without the ancestor filter
PsFilterNone(imageName) == {c \in ContainerIds : running[c] \in Images}

\* docker ps --filter ancestor=<image>: the running containers of the image
PsFilter(imageName) == {c \in ContainerIds : running[c] = imageName}

\* the output lines "<id> <name>" of docker ps --format "{{.ID}} {{.Names}}"
PsOutputs(imageName) ==
    {[i \in DOMAIN q |-> <<q[i], "name">>] : q \in Orderings(PsFilter(imageName))}

\* output.split('\n').map(line => line.split(' ')[0])
ParseContainers(output) == [i \in DOMAIN output |-> output[i][1]]

\* faulty variant: only the first container is stopped
StopLoopOnlyFirst(idx, containers, ok) == FALSE

\* faulty variant: a failed docker stop ends the loop (no try/catch inside the loop body)
StopLoopAbortsOnFailure(idx, containers, ok) == ok /\ idx < Len(containers)

\* containers.forEach: a failed docker stop is caught inside the loop body, so the
\* loop goes on to the next container whatever the outcome
StopLoopGoesOn(idx, containers, ok) == idx < Len(containers)

\* `docker stop <id>`: succeeds only on a running container, and can fail on one
StopOutcomes(c) == {ok \in BOOLEAN : ok => running[c] \in Images}

StartStop(args) ==
    /\ proc.script = "none"
    /\ proc' = [Idle EXCEPT !.script = "world-stop", !.pc = "load", !.args = args,
                            !.clean = (prev.script = "world-stop" /\ ~dirty)]
    /\ calls' = <<>>
    /\ dirty' = FALSE
    /\ UNCHANGED <<fs, images, running, prev, portal>>

StopLoad ==
    /\ proc.script = "world-stop" /\ proc.pc = "load"
    /\ LET worldDir == Resolve(InputDir(proc.args))
           configPath == Join(worldDir, "world.json")
       IN  proc' =
             IF DescriptorMissing(configPath) THEN Exit(proc, 1, "MissingDescriptor")
             ELSE IF ParseThrows(configPath) THEN Exit(proc, 1, "SyntaxError")
             ELSE [proc EXCEPT !.pc = "probe", !.worldDir = worldDir,
                               !.world = ReadWorld(configPath)]
    /\ UNCHANGED <<fs, images, running, calls, prev, dirty, portal>>

\* lines 21-36: docker ps; exit 1 when it fails, exit 0 on empty output
StopProbe ==
    /\ proc.script = "world-stop" /\ proc.pc = "probe"
    /\ \/ /\ calls' = Append(calls, Call("ps", <<proc.world.image>>, FALSE))
          /\ proc' = Exit([proc EXCEPT !.atProbe = Instances(proc.world.image)],
                          1, "ProbeFailed")
       \/ \E output \in PsOutputs(proc.world.image) :
            /\ calls' = Append(calls, Call("ps", <<proc.world.image>>, TRUE))
            /\ proc' = IF output = <<>>
                       THEN Exit([proc EXCEPT !.probed = TRUE, !.said = "none-found"], 0, "")
                       ELSE [proc EXCEPT !.probed = TRUE, !.pc = "stopping", !.idx = 1,
                                         !.atProbe = Instances(proc.world.image),
                                         !.containers = ParseContainers(output)]
    /\ UNCHANGED <<fs, images, running, prev, dirty, portal>>

\* lines 38-47: one turn of containers.forEach, and the summary after the last
StopEach ==
    /\ proc.script = "world-stop" /\ proc.pc = "stopping"
    /\ LET containerId == proc.containers[proc.idx]
       IN  \E ok \in StopOutcomes(containerId) :
             LET p == [proc EXCEPT !.warned = IF ok THEN @ ELSE @ \cup {containerId}]
             IN  /\ calls' = Append(calls, Call("stop", <<containerId>>, ok))
                 /\ running' = IF ok THEN [running EXCEPT ![containerId] = Gone] ELSE running
                 /\ proc' = IF StopLoopGoesOn(proc.idx, proc.containers, ok)
                            THEN [p EXCEPT !.idx = @ + 1]
                            ELSE Exit([p EXCEPT !.reported = <<Len(proc.containers)>>,
                                                !.said = "stopped"], 0, "")
    /\ UNCHANGED <<fs, images, prev, dirty, portal>>

----------------------------------------------------------------------------
(* world-init.js: node world-init.js <world-name> [--type=...] [--port=...] *)

TypeArg(s) == [flag |-> "--type", val |-> s]

InitTypeArgs == {<<>>, <<TypeArg("web")>>, <<TypeArg("cli")>>, <<TypeArg("api")>>,
                 <<TypeArg("")>>}

InitCommandLines ==
    {<<>>} \cup {<<Positional("demo")>> \o t \o p : t \in InitTypeArgs, p \in PortArgs}

\* args.slice(1).forEach: a flag with an empty value is skipped, and the last flag
\* of a kind that has a value overwrites the default
OptionValue(args, flag, default) ==
    LET hit == {i \in 2..Len(args) : args[i].flag = flag /\ args[i].val # ""}
    IN  IF hit = {} THEN default
        ELSE <<args[CHOOSE i \in hit : \A j \in hit : j <= i].val>>

\* options.type, and options.port after parseInt
InitOptions(args) ==
    LET type == OptionValue(args, "--type", <<"web">>)
        port == OptionValue(args, "--port", <<>>)
    IN  [type |-> type[1],
         port |-> IF port = <<>> THEN DefaultPort ELSE ParseInt(port[1])]

\* worldConfig, as far as the launch and push scripts read it
WorldConfig(worldName, options) ==
    [name |-> worldName, image |-> "ghcr.io/your-namespace/" \o worldName,
     type |-> options.type, port |-> <<options.port>>, volumeMount |-> <<>>]

\* if (options.type === 'web') ...; if (options.type === 'cli') ...
InitWritesDockerfile(type) == type = "web" \/ type = "cli"

StartWorldInit(args) ==
    /\ proc.script = "none"
    /\ proc' = [Idle EXCEPT !.script = "world-init", !.pc = "init", !.args = args]
    /\ calls' = <<>>
    /\ prev' = NoPrev
    /\ UNCHANGED <<fs, images, running, dirty, portal>>

\* the whole script: usage check, existsSync(root), mkdir, world.json, Dockerfile
WorldInitRun ==
    /\ proc.script = "world-init" /\ proc.pc = "init"
    /\ IF Len(proc.args) < 1
       THEN proc' = Exit(proc, 1, "Usage") /\ UNCHANGED fs
       ELSE LET worldName == proc.args[1].val
                worldConfig == WorldConfig(worldName, InitOptions(proc.args))
            IN  IF worldName \in DOMAIN fs
                THEN proc' = Exit(proc, 1, "DirectoryExists") /\ UNCHANGED fs
                ELSE /\ fs' = [d \in DOMAIN fs \cup {worldName} |->
                                 IF d = worldName
                                 THEN [descriptor |-> "ok", world |-> worldConfig,
                                       dockerfile |-> InitWritesDockerfile(worldConfig.type)]
                                 ELSE fs[d]]
                     /\ proc' = Exit([proc EXCEPT !.world = worldConfig,
                                                  !.said = "created"], 0, "")
    /\ UNCHANGED <<images, running, calls, prev, dirty, portal>>

----------------------------------------------------------------------------
(* The push script, run inside a world directory *)

\* `docker tag <name> <image>:latest` fails when no local image is tagged <name>
\* (world-launch.js builds under <image>, a build by hand under <name>)
TagOutcomes == BOOLEAN

\* the status of `docker push`
PushStatuses == {0, 1}

\* console.log('... pushed successfully ...') after the if/else on the status
PushClosingLine(status) == <<"pushed-successfully">>

\* worldDir: process.cwd() of the script
StartPush(dir) ==
    /\ proc.script = "none"
    /\ proc' = [Idle EXCEPT !.script = "world-push", !.pc = "load",
                            !.worldDir = Append(Cwd, dir)]
    /\ calls' = <<>>
    /\ prev' = NoPrev
    /\ UNCHANGED <<fs, images, running, dirty, portal>>

PushLoad ==
    /\ proc.script = "world-push" /\ proc.pc = "load"
    /\ LET configPath == Join(proc.worldDir, "world.json")
       IN  proc' =
             IF DescriptorMissing(configPath) THEN Exit(proc, 1, "MissingDescriptor")
             ELSE IF ParseThrows(configPath) THEN Exit(proc, 1, "SyntaxError")
             ELSE [proc EXCEPT !.pc = "tag", !.world = ReadWorld(configPath)]
    /\ UNCHANGED <<fs, images, running, calls, prev, dirty, portal>>

\* lines 21-26: execSync(docker tag) in try/catch, process.exit(1) in the catch
PushTag ==
    /\ proc.script = "world-push" /\ proc.pc = "tag"
    /\ \E ok \in TagOutcomes :
         /\ calls' = Append(calls, Call("tag", <<proc.world.name, proc.world.image>>, ok))
         /\ proc' = IF ok THEN [proc EXCEPT !.pc = "push"]
                    ELSE Exit(proc, 1, "TagFailed")
    /\ UNCHANGED <<fs, images, running, prev, dirty, portal>>

\* lines 28-40: spawnSync(docker push), the line for its status, the closing lines
PushPush ==
    /\ proc.script = "world-push" /\ proc.pc = "push"
    /\ \E status \in PushStatuses :
         /\ calls' = Append(calls, Call("push", <<proc.world.image>>, status = 0))
         /\ proc' = Exit([proc EXCEPT
                            !.code = <<status>>,
                            !.lines = (IF status = 0 THEN <<"pushed-successfully">>
                                       ELSE <<"warn-push-status">>)
                                        \o PushClosingLine(status)], 0, "")
    /\ UNCHANGED <<fs, images, running, prev, dirty, portal>>

----------------------------------------------------------------------------
(* The session: scripts are run one after another from a shell, while other *)
(* actors start containers and containers exit on their own.               *)

StopTargets == {calls[i].arg[1] : i \in Issued("stop")}
StopFailures == {calls[i].arg[1] : i \in {j \in Issued("stop") : ~calls[j].ok}}

\* the process has ended: the shell is ready for the next script
Finish ==
    /\ proc.pc = "exited"
    /\ prev' = IF proc.script = "world-stop"
               THEN [script |-> "world-stop", worldDir |-> proc.worldDir,
                     probed |-> proc.probed, exit |-> proc.exit,
                     issued |-> StopTargets, failed |-> StopFailures]
               ELSE NoPrev
    /\ proc' = Idle
    /\ calls' = <<>>
    /\ UNCHANGED <<fs, images, running, dirty, portal>>

\* somebody else starts a container of some image
ExternalLaunch(image) ==
    /\ \E c \in FreeIds : running' = [running EXCEPT ![c] = image]
    /\ dirty' = TRUE
    /\ UNCHANGED <<fs, images, proc, calls, prev, portal>>

----------------------------------------------------------------------------
(* The world portal (WorldPortal): one long-running process with a keypress  *)
(* handler, timers and child processes.  Everything the event loop runs      *)
(* without yielding is one action.                                           *)

MaxChildren == 2
MaxTimers == 1
MaxScans == 2

ChildSlots == 1..MaxChildren

\* fs.readdirSync(process.cwd()): the entries of the scan root, in the order the
\* file system lists them; "notes.txt" is a plain file
ReaddirSync == <<"alpha", "notes.txt", "beta", "gamma">>

\* dirent.isDirectory()
IsDirectory(name) == name \in DOMAIN fs

PortalDirs == {"alpha", "beta", "gamma"}

\* the world.json of a portal directory
PortalWorld(dir) ==
    [name |-> dir, image |-> IF dir = "alpha" THEN DemoImage ELSE OtherImage,
     type |-> "web", port |-> <<>>, volumeMount |-> <<>>]

PortalDirEntries(dir) ==
    [descriptor : {"ok"}, world : {PortalWorld(dir)}, dockerfile : {TRUE}]
      \cup [descriptor : {"missing", "malformed"}, world : {NoWorld}, dockerfile : {TRUE}]

NoChild == [kind |-> "none", state |-> "none", directory |-> "", cid |-> 0]

\* the portal before it is started.  screen: "list", or the text printed last;
\* via: the callback that called showPortal, while the list is on the screen;
\* scanned: the callback that ran last called loadWorlds
NoPortal ==
    [pc |-> "off", worlds |-> <<>>, selectedIndex |-> 0,
     screen |-> "none", via |-> "", scanned |-> FALSE,
     timers |-> 0, quitting |-> FALSE,
     children |-> [k \in ChildSlots |-> NoChild],
     exit |-> <<>>]

\* { ...worldData, directory: dir, isRunning }
WorldView(worldData, dir, isRunning) ==
    [directory |-> dir, image |-> worldData.image, isRunning |-> isRunning]

\* faulty variant: a failed docker ps drops the world (no inner try/catch)
ProbeIsRunningStrict(image, probeOk) == <<probeOk, probeOk /\ Instances(image) # {}>>

\* lines 117-128: isRunning = output.length > 0, and false when docker ps throws;
\* the pair is <<the world is kept, isRunning>>
ProbeIsRunning(image, probeOk) == <<TRUE, probeOk /\ Instances(image) # {}>>

\* faulty variant: a directory without world.json is listed all the same
HasDescriptorAlways(worldPath) == TRUE

\* fs.existsSync(worldPath)
HasDescriptor(worldPath) == ExistsSync(worldPath)

\* lines 109-139: the body of `for (const dir of dirs)`, applied to the directories
\* in order; worlds is this.worlds
RECURSIVE ScanDirs(_, _, _)
ScanDirs(dirs, probes, worlds) ==
    IF dirs = <<>> THEN worlds
    ELSE
      LET dir == Head(dirs)
          worldPath == Join(Append(Cwd, dir), "world.json")
          worldData == ReadWorld(worldPath)
          probe == ProbeIsRunning(worldData.image, probes[dir])
          next ==
            IF ~HasDescriptor(worldPath) THEN worlds
            ELSE IF ParseThrows(worldPath) THEN worlds
            ELSE IF ~probe[1] THEN worlds
            ELSE Append(worlds, WorldView(worldData, dir, probe[2]))
      IN  ScanDirs(Tail(dirs), probes, next)

\* faulty variant: the list is rebuilt from scratch by every scan
LoadWorldsStart(worlds) == <<>>

\* loadWorlds pushes onto this.worlds, which only the constructor sets to []
LoadWorldsOnto(worlds) == worlds

\* faulty variant: an empty list is not looked for
NoWorldsFoundIgnored(worlds) == FALSE

\* if (this.worlds.length === 0)
NoWorldsFound(worlds) == Len(worlds) = 0

\* loadWorlds(): lines 104-146, with process.exit(0) when no world was found
LoadWorlds(p, probes) ==
    LET dirs == SelectSeq(ReaddirSync, IsDirectory)
        worlds == ScanDirs(dirs, probes, LoadWorldsOnto(p.worlds))
        q == [p EXCEPT !.worlds = worlds, !.scanned = TRUE]
    IN  IF NoWorldsFound(worlds) THEN [q EXCEPT !.pc = "exited", !.exit = <<0>>] ELSE q

\* the outcomes of the docker ps calls of one scan
Probes == [PortalDirs -> BOOLEAN]

\* this.worlds holds the views of at most MaxScans scans: p is the portal before
\* the scan, q after it
Bounded(p, q) == Len(q.worlds) <= MaxScans * (Len(q.worlds) - Len(p.worlds))

\* a callback starts
Begin(p) == [p EXCEPT !.scanned = FALSE]

\* console.clear() and what the callback prints
Screen(p, screen) == [p EXCEPT !.screen = screen, !.via = ""]

\* showPortal(), called from `via`
ShowPortal(p, via) == [p EXCEPT !.screen = "list", !.via = via]

\* this.worlds[this.selectedIndex] (JavaScript indexes from 0)
Selected(p) == p.worlds[p.selectedIndex + 1]

\* this.worlds[this.selectedIndex] is undefined: reading a field of it throws
Undefined(p) == ~(p.selectedIndex + 1 \in DOMAIN p.worlds)

\* the rejection of the async keypress handler is not handled: node ends the process
Crash(p) == [p EXCEPT !.pc = "exited", !.exit = <<1>>]

\* spawn() could not start the program: the child emits 'error', for which no
\* listener is registered, so the error is thrown in the event loop and node ends
\* the process with its object, timers and listeners; the children it had started
\* run on without it
SpawnError(p) ==
    [NoPortal EXCEPT !.pc = "exited", !.exit = <<1>>, !.screen = p.screen,
                     !.children = p.children]

\* child_process.spawn: the program is started, or it cannot be started
SpawnOutcomes == BOOLEAN

\* faulty variant: the cursor moves down without the Math.min
MoveDownUnclamped(selectedIndex, length) == selectedIndex + 1

\* Math.min(this.worlds.length - 1, this.selectedIndex + 1)
MoveDown(selectedIndex, length) ==
    IF length - 1 < selectedIndex + 1 THEN length - 1 ELSE selectedIndex + 1

\* faulty variant: the cursor moves up without the Math.max
MoveUpUnclamped(selectedIndex) == selectedIndex - 1

\* Math.max(0, this.selectedIndex - 1)
MoveUp(selectedIndex) == IF 0 > selectedIndex - 1 THEN 0 ELSE selectedIndex - 1

\* the event loop is free to run a callback.  The keypress listener is never
\* removed, and no handler looks at what is already going on
Listening == portal.pc = "listening"

FreeSlots ==
    LET free == {k \in ChildSlots : portal.children[k].kind = "none"}
    IN  {k \in free : \A j \in free : k <= j}

\* a timer that calls showPortal can still be armed
TimerFree == portal.timers < MaxTimers

\* a message, and setTimeout(() => this.showPortal(), ...)
Message(p, text) == [Screen(p, text) EXCEPT !.timers = @ + 1]

PortalQuiet == UNCHANGED <<fs, images, running, proc, calls, prev, dirty>>

\* lines 378-381 and init(): the first scan, then showPortal and handleInput
PortalInit ==
    /\ portal.pc = "start"
    /\ \E probes \in Probes :
         LET p == LoadWorlds(Begin(portal), probes)
         IN  portal' = IF p.pc = "exited" THEN p
                       ELSE ShowPortal([p EXCEPT !.pc = "listening"], "init")
    /\ PortalQuiet

\* faulty variant: a cursor key also asks docker again whether each world runs
MoveCursorReprobes(p, selectedIndex) ==
    ShowPortal([Begin(p) EXCEPT
                  !.selectedIndex = selectedIndex,
                  !.worlds = [i \in DOMAIN p.worlds |->
                                [p.worlds[i] EXCEPT
                                   !.isRunning = Instances(p.worlds[i].image) # {}]]],
               "key")

\* this.selectedIndex = ...; this.showPortal()
MoveCursor(p, selectedIndex) ==
    ShowPortal([Begin(p) EXCEPT !.selectedIndex = selectedIndex], "key")

\* case 'up'
KeyUp ==
    /\ Listening
    /\ portal' = MoveCursor(portal, MoveUp(portal.selectedIndex))
    /\ PortalQuiet

\* case 'down'
KeyDown ==
    /\ Listening
    /\ portal' = MoveCursor(portal, MoveDown(portal.selectedIndex, Len(portal.worlds)))
    /\ PortalQuiet

\* case 'r': await this.loadWorlds(); this.showPortal()
KeyRefresh ==
    /\ Listening
    /\ \E probes \in Probes :
         LET p == LoadWorlds(Begin(portal), probes)
         IN  Bounded(portal, p) /\ portal' = ShowPortal(p, "refresh")
    /\ PortalQuiet

\* case 'return': launchWorld() spawns `node world-launch.js <directory>` and
\* returns; the child runs beside the portal
KeyLaunch ==
    /\ Listening
    /\ \E k \in FreeSlots, ok \in SpawnOutcomes :
         portal' = IF Undefined(portal) THEN Crash(portal)
                   ELSE IF ~ok THEN SpawnError(Screen(Begin(portal), "Launching"))
                   ELSE [Screen(Begin(portal), "Launching") EXCEPT
                           !.children[k] = [kind |-> "launch", state |-> "spawned",
                                            directory |-> Selected(portal).directory,
                                            cid |-> 0]]
    /\ PortalQuiet

\* the launch child reaches docker run (a web world in the foreground), or fails
\* before it and ends
LaunchChildRuns(k) ==
    /\ portal.children[k].kind = "launch" /\ portal.children[k].state = "spawned"
    /\ LET configPath == Join(Append(Cwd, portal.children[k].directory), "world.json")
       IN  \E cid \in RunOutcomes :
             /\ running' = Started(cid, ReadWorld(configPath).image)
             /\ portal' = [portal EXCEPT !.children[k].cid = cid,
                              !.children[k].state = IF cid = 0 THEN "exited" ELSE "attached"]
    /\ UNCHANGED <<fs, images, proc, calls, prev, dirty>>

\* docker run returns when its container is gone, and the launch child with it
LaunchChildExits(k) ==
    /\ portal.children[k].kind = "launch" /\ portal.children[k].state = "attached"
    /\ running[portal.children[k].cid] = Gone
    /\ portal' = [portal EXCEPT !.children[k].state = "exited", !.children[k].cid = 0]
    /\ PortalQuiet

\* worldProcess.on('exit'): setTimeout(() => loadWorlds().then(showPortal), 1000)
OnLaunchExit(k) ==
    /\ Listening
    /\ portal.children[k].kind = "launch" /\ portal.children[k].state = "exited"
    /\ portal' = [Screen(Begin(portal), "Returned to portal") EXCEPT
                    !.children[k].state = "settling"]
    /\ PortalQuiet

\* faulty variant: the list is shown again without a scan
ReloadSkipped(p, probes) == ShowPortal(p, "launch-exit")

\* the callback of that timer
ReloadThenShow(p, probes) == ShowPortal(LoadWorlds(p, probes), "launch-exit")

LaunchReload(k) ==
    /\ Listening
    /\ portal.children[k].kind = "launch" /\ portal.children[k].state = "settling"
    /\ \E probes \in Probes :
         /\ Bounded(portal, LoadWorlds(portal, probes))
         /\ portal' = ReloadThenShow([Begin(portal) EXCEPT !.children[k] = NoChild], probes)
    /\ PortalQuiet

\* faulty variant: stopWorld does not look at isRunning
StopWorldSkipsNever(world) == FALSE

\* if (!world.isRunning) { ...; return; }
StopWorldSkips(world) == ~world.isRunning

\* case 's': stopWorld(), up to and including the call of execSync, which holds the
\* event loop until `node world-stop.js <directory>` has ended
KeyStop ==
    /\ Listening /\ TimerFree
    /\ IF Undefined(portal)
       THEN /\ portal' = Crash(portal)
            /\ UNCHANGED <<proc, calls>>
       ELSE IF StopWorldSkips(Selected(portal))
       THEN /\ portal' = Message(Begin(portal), "World is not running")
            /\ UNCHANGED <<proc, calls>>
       ELSE /\ proc.script = "none"
            /\ portal' = [Screen(Begin(portal), "Stopping") EXCEPT !.pc = "blocked"]
            /\ proc' = [Idle EXCEPT !.script = "world-stop", !.pc = "load",
                                    !.args = <<Positional(Selected(portal).directory)>>]
            /\ calls' = <<>>
    /\ UNCHANGED <<fs, images, running, prev, dirty>>

\* execSync returns (exit code 0: loadWorlds, showPortal) or throws (catch: the
\* message and a timer)
StopWorldReturns ==
    /\ portal.pc = "blocked" /\ proc.script = "world-stop" /\ proc.pc = "exited"
    /\ IF proc.exit = <<0>>
       THEN \E probes \in Probes :
              LET p == ShowPortal(LoadWorlds([portal EXCEPT !.pc = "listening"], probes),
                                  "stop")
              IN  Bounded(portal, p) /\ portal' = p
       ELSE portal' = Message([portal EXCEPT !.pc = "listening"], "Failed to stop world")
    /\ proc' = Idle
    /\ calls' = <<>>
    /\ UNCHANGED <<fs, images, running, prev, dirty>>

\* case 'i': injectData() prints a message either way and arms a timer
KeyInject ==
    /\ Listening /\ TimerFree
    /\ portal' = IF Undefined(portal) THEN Crash(portal)
                 ELSE IF ~Selected(portal).isRunning
                 THEN Message(Begin(portal), "World must be running to inject data")
                 ELSE Message(Begin(portal), "Coming soon")
    /\ PortalQuiet

\* `docker ps ... | head -1`: the newest container of the image; nothing when
\* docker ps prints nothing or fails (the status of the pipeline is that of head)
HeadOfPs(image) ==
    {0} \cup {c \in Instances(image) : \A d \in Instances(image) : d <= c}

\* case 'l': viewLogs()
KeyLogs ==
    /\ Listening /\ TimerFree
    /\ IF Undefined(portal) THEN portal' = Crash(portal)
       ELSE IF ~Selected(portal).isRunning
       THEN portal' = Message(Begin(portal), "World must be running to view logs")
       ELSE \E containerId \in HeadOfPs(Selected(portal).image) :
              IF containerId = 0
              THEN portal' = Screen(Begin(portal), "Viewing logs")
              ELSE \E k \in FreeSlots, ok \in SpawnOutcomes :
                     portal' = IF ~ok
                               THEN SpawnError(Screen(Begin(portal), "Viewing logs"))
                               ELSE
                               [Screen(Begin(portal), "Viewing logs") EXCEPT
                                  !.children[k] = [kind |-> "logs", state |-> "attached",
                                                   directory |-> Selected(portal).directory,
                                                   cid |-> containerId]]
    /\ PortalQuiet

\* docker logs -f ends when its container does
LogsChildExits(k) ==
    /\ portal.children[k].kind = "logs" /\ portal.children[k].state = "attached"
    /\ running[portal.children[k].cid] = Gone
    /\ portal' = [portal EXCEPT !.children[k].state = "exited", !.children[k].cid = 0]
    /\ PortalQuiet

\* logsProcess.on('exit', () => { this.showPortal(); })
OnLogsExit(k) ==
    /\ Listening
    /\ portal.children[k].kind = "logs" /\ portal.children[k].state = "exited"
    /\ portal' = ShowPortal([Begin(portal) EXCEPT !.children[k] = NoChild], "logs-exit")
    /\ PortalQuiet

\* a setTimeout(() => this.showPortal(), ...) fires
ShowTimer ==
    /\ Listening /\ portal.timers > 0
    /\ portal' = ShowPortal([Begin(portal) EXCEPT !.timers = @ - 1], "timer")
    /\ PortalQuiet

\* case 'q', case 'escape': quit() starts the farewell animation
KeyQuit ==
    /\ Listening
    /\ portal' = [Screen(Begin(portal), "GOODBYE") EXCEPT !.quitting = TRUE]
    /\ PortalQuiet

\* the farewell interval reaches the end of the message: process.exit(0)
Farewell ==
    /\ Listening /\ portal.quitting
    /\ portal' = [portal EXCEPT !.pc = "exited", !.exit = <<0>>]
    /\ PortalQuiet

----------------------------------------------------------------------------
(* Specifications *)

\* a session directory: a web world with a Dockerfile, or a broken descriptor
SessionWorld ==
    [name |-> "demo", image |-> DemoImage, type |-> "web", port |-> <<>>,
     volumeMount |-> <<>>]

SessionDirEntries ==
    {[descriptor |-> "ok", world |-> SessionWorld, dockerfile |-> TRUE],
     [descriptor |-> "missing", world |-> NoWorld, dockerfile |-> TRUE],
     [descriptor |-> "malformed", world |-> NoWorld, dockerfile |-> TRUE]}

Init ==
    /\ fs \in [WorldDirs -> SessionDirEntries]
    /\ images \in {{}, {DemoImage}}
    /\ running = [c \in ContainerIds |-> ""]
    /\ proc = Idle
    /\ calls = <<>>
    /\ prev = NoPrev
    /\ dirty = FALSE
    /\ portal = NoPortal

LaunchSteps ==
    \/ WorldLaunchLoad \/ WorldLaunchInspect \/ WorldLaunchBuild \/ WorldLaunchRun
    \/ WorldLaunchOpenBrowser \/ WorldLaunchDockerExit
    \/ LaunchLoad \/ LaunchInspect \/ LaunchBuild \/ LaunchRun \/ LaunchRunReturns

Next ==
    \/ \E args \in LaunchCommandLines : StartWorldLaunch(args)
    \/ \E args \in LaunchCommandLines : StartLaunch(args)
    \/ \E args \in StopCommandLines : StartStop(args)
    \/ LaunchSteps
    \/ StopLoad \/ StopProbe \/ StopEach
    \/ Finish
    \/ \E image \in Images : ExternalLaunch(image)
    \/ \E c \in ContainerIds : ContainerExits(c)

Spec == Init /\ [][Next]_vars

\* one launcher run, for every descriptor, Dockerfile and image store
InitLaunch ==
    /\ fs \in [WorldDirs -> DirEntries]
    /\ images \in SUBSET Images
    /\ running = [c \in ContainerIds |-> ""]
    /\ proc = Idle
    /\ calls = <<>>
    /\ prev = NoPrev
    /\ dirty = FALSE
    /\ portal = NoPortal

NextLaunch ==
    \/ \E args \in LaunchCommandLines : StartWorldLaunch(args)
    \/ \E args \in LaunchCommandLines : StartLaunch(args)
    \/ LaunchSteps
    \/ \E c \in ContainerIds : ContainerExits(c)

SpecLaunch == InitLaunch /\ [][NextLaunch]_vars

\* an author's session in an empty working directory: scaffold a world, launch it
\* with world-launch.js, push it
InitScaffold ==
    /\ fs = [d \in {} |-> NoWorld]
    /\ images = {}
    /\ running = [c \in ContainerIds |-> ""]
    /\ proc = Idle
    /\ calls = <<>>
    /\ prev = NoPrev
    /\ dirty = FALSE
    /\ portal = NoPortal

ScaffoldLaunchLines == {<<Positional("demo")>> \o t : t \in {<<>>, <<DetachLong>>}}

NextScaffold ==
    \/ \E args \in InitCommandLines : StartWorldInit(args)
    \/ WorldInitRun
    \/ \E args \in ScaffoldLaunchLines : StartWorldLaunch(args)
    \/ WorldLaunchLoad \/ WorldLaunchInspect \/ WorldLaunchBuild \/ WorldLaunchRun
    \/ WorldLaunchOpenBrowser \/ WorldLaunchDockerExit
    \/ StartPush("demo")
    \/ PushLoad \/ PushTag \/ PushPush
    \/ Finish
    \/ \E c \in ContainerIds : ContainerExits(c)

SpecScaffold == InitScaffold /\ [][NextScaffold]_vars

\* the scan root: three directories, each with a world.json, without one, or with
\* one that does not parse
ScanRoots ==
    {f \in [PortalDirs -> UNION {PortalDirEntries(d) : d \in PortalDirs}] :
       \A d \in PortalDirs : f[d] \in PortalDirEntries(d)}

\* the portal's scans and cursor keys over every scan root, beside a runtime in
\* which containers of the worlds' images run and exit
InitScan ==
    /\ fs \in ScanRoots
    /\ images = Images
    /\ \E first \in {"", DemoImage, OtherImage}, second \in {"", OtherImage} :
         /\ first # DemoImage => second = ""
         /\ running = [c \in ContainerIds |->
                         IF c = 1 THEN first ELSE IF c = 2 THEN second ELSE ""]
    /\ proc = Idle
    /\ calls = <<>>
    /\ prev = NoPrev
    /\ dirty = FALSE
    /\ portal = [NoPortal EXCEPT !.pc = "start"]

NextScan ==
    \/ PortalInit
    \/ KeyUp
    \/ KeyDown
    \/ KeyRefresh
    \/ \E c \in ContainerIds : ContainerExits(c)

SpecScan == InitScan /\ [][NextScan]_vars

\* the whole portal over a scan root with one world, beside a runtime in which a
\* container of its image may already run
InitPortal ==
    /\ fs \in {f \in ScanRoots : /\ f["alpha"].descriptor = "ok"
                                 /\ f["beta"].descriptor = "malformed"
                                 /\ f["gamma"].descriptor = "missing"}
    /\ images = Images
    /\ \E image \in {DemoImage, ""} :
         running = [c \in ContainerIds |-> IF c = 1 THEN image ELSE ""]
    /\ proc = Idle
    /\ calls = <<>>
    /\ prev = NoPrev
    /\ dirty = FALSE
    /\ portal = [NoPortal EXCEPT !.pc = "start"]

NextPortal ==
    \/ PortalInit
    \/ KeyUp
    \/ KeyDown
    \/ KeyRefresh
    \/ KeyLaunch
    \/ KeyStop
    \/ KeyInject
    \/ KeyLogs
    \/ KeyQuit
    \/ \E k \in ChildSlots : LaunchChildRuns(k)
    \/ \E k \in ChildSlots : LaunchChildExits(k)
    \/ \E k \in ChildSlots : OnLaunchExit(k)
    \/ \E k \in ChildSlots : LaunchReload(k)
    \/ \E k \in ChildSlots : LogsChildExits(k)
    \/ \E k \in ChildSlots : OnLogsExit(k)
    \/ ShowTimer
    \/ Farewell
    \/ StopLoad
    \/ StopProbe
    \/ StopEach
    \/ StopWorldReturns
    \/ \E c \in ContainerIds : ContainerExits(c)

SpecPortal == InitPortal /\ [][NextPortal]_vars

----------------------------------------------------------------------------
(* Properties *)

Launching == proc.script \in {"world-launch", "launch"}
Stopping == proc.script = "world-stop"
Exited == proc.pc = "exited"

\* the descriptor was read: the process holds a world.json record
Loaded == proc.world \in Worlds

\* the image was found, or built, by this process
ImageEnsured == \E i \in 1..Len(calls) : calls[i].op \in {"inspect", "build"} /\ calls[i].ok

RunCalls == {calls[i].arg : i \in Issued("run")}

\* C1: a launch (either launch script, any port override, any detach request) of a
\* descriptor whose type is neither web nor cli never invokes docker run (nor the
\* browser), and ends with exit code 1: with UnknownWorldType once the image is
\* there, with a build error otherwise.
C1_UnknownTypeNeverRuns ==
    (Launching /\ Loaded /\ ~(proc.world.type \in {"web", "cli"})) =>
        /\ Issued("run") = {} /\ Issued("open") = {}
        /\ proc.pc \in {"inspect", "build", "run", "exited"}
        /\ Exited => /\ proc.exit = <<1>>
                      /\ proc.err \in {"UnknownWorldType", "MissingBuildContext", "BuildFailed"}
                      /\ ImageEnsured <=> proc.err = "UnknownWorldType"

C1_Witness ==
    /\ proc.script = "launch" /\ Exited /\ proc.world.type = "api"
    /\ proc.err = "UnknownWorldType"
    /\ DetachRequested(proc.args) /\ GetArg(proc.args, "--port") # <<>>

\* C2: whenever the docker ps of world-stop.js is made while no container of the
\* world's image is running, the script issues no docker stop and exits with code 0.
C2_NoInstanceStopSucceeds ==
    (Stopping /\ Loaded /\ Issued("ps") # {} /\ proc.atProbe = {}) =>
        /\ Issued("stop") = {}
        /\ Exited /\ proc.exit = <<0>>

\* C3: in world-stop.js every container found by the probe gets its docker stop, in
\* order, whatever the outcome of the earlier ones; each failed docker stop is
\* warned about for its container; the script then ends with exit code 0.
StopCallIds == [i \in 1..(Len(calls) - 1) |-> calls[i + 1].arg[1]]

C3_FailedStopDoesNotAbort ==
    (Stopping /\ proc.probed /\ proc.containers # <<>>) =>
        /\ proc.warned = StopFailures
        /\ proc.pc = "stopping" =>
              StopCallIds = SubSeq(proc.containers, 1, proc.idx - 1)
        /\ Exited => /\ StopCallIds = proc.containers
                      /\ proc.exit = <<0>>
        /\ proc.pc \in {"stopping", "exited"}

C3_Witness ==
    /\ Stopping /\ Exited /\ Len(proc.containers) >= 2
    /\ ~calls[2].ok /\ calls[3].ok
    /\ proc.containers[1] \in proc.warned

\* a world-stop.js run that directly follows another world-stop.js run on the same
\* descriptor, with no container started by anyone since the first run began
SecondStop ==
    /\ Stopping /\ Loaded /\ proc.clean /\ ~dirty
    /\ prev.script = "world-stop" /\ prev.worldDir = proc.worldDir

C5_StopsExactlyTheProbedSet ==
    (Stopping /\ proc.probed) =>
        /\ {proc.containers[i] : i \in DOMAIN proc.containers} = proc.atProbe
        /\ StopTargets \subseteq proc.atProbe
        /\ \A c \in StopTargets : running[c] # OtherImage
        /\ Exited => /\ StopTargets = proc.atProbe
                      /\ Cardinality(Issued("stop")) = Cardinality(proc.atProbe)

C5_Witness ==
    /\ Stopping /\ Exited /\ Cardinality(StopTargets) = 2
    /\ \E c \in ContainerIds : running[c] = OtherImage

WorldLaunch == proc.script = "world-launch"

DemoDir == Append(Cwd, "demo")

\* the -v arguments of an argument list
Mounts(dockerArgs) == {dockerArgs[i].v : i \in {j \in 1..Len(dockerArgs) : dockerArgs[j].f = "-v"}}

\* C6: every docker run of world-launch.js for a web world bind-mounts the world's
\* absolute directory to /app exactly when volumeMount is true (not when it is false
\* or absent); a run for a cli world has no bind mount.
C6_MountIffVolumeMount ==
    (WorldLaunch /\ Loaded) =>
        \A a \in RunCalls :
            /\ a = proc.dockerArgs
            /\ Mounts(a) = IF proc.world.type = "web" /\ proc.world.volumeMount = <<TRUE>>
                           THEN {<<DemoDir, "/app">>} ELSE {}

C6_Witness ==
    /\ WorldLaunch /\ RunCalls # {} /\ proc.world.type = "web"
    /\ proc.world.volumeMount = <<TRUE>> /\ HasFlag(proc.dockerArgs, "-v")

\* C7: in world-launch.js a cli world is never run detached: after the descriptor is
\* read `detached` is false, and no docker run carries -d, whether or not --detach
\* or -d was given.
C7_CliNeverDetached ==
    (WorldLaunch /\ Loaded /\ proc.world.type = "cli") =>
        /\ ~proc.detached
        /\ \A a \in RunCalls : ~HasFlag(a, "-d") /\ HasFlag(a, "-it")

C7_Witness ==
    /\ WorldLaunch /\ proc.world.type = "cli" /\ RunCalls # {}
    /\ Includes(proc.args, DetachShort)

\* C8: a launch (either script) whose image is not in the local store and whose
\* world directory has no Dockerfile ends with exit code 1 (MissingBuildContext)
\* right after the image check: no docker build and no docker run are invoked.
C8_MissingBuildContext ==
    (Launching /\ Loaded /\ proc.pc # "load" /\ proc.world.image \notin images
       /\ ~fs["demo"].dockerfile) =>
        /\ Issued("build") = {} /\ Issued("run") = {}
        /\ proc.pc \in {"inspect", "exited"}
        /\ Exited => proc.exit = <<1>> /\ proc.err = "MissingBuildContext"

C8_Witness ==
    /\ WorldLaunch /\ Exited /\ proc.err = "MissingBuildContext"
    /\ proc.world.type = "web" /\ proc.world.port = <<9000>>
    /\ calls = <<Call("inspect", <<DemoImage>>, FALSE)>>

\* C9: once a docker build of a launch (either script) has failed, the process has
\* ended with exit code 1 (BuildFailed); the build was invoked once, and neither
\* docker run nor the browser was invoked.
C9_BuildFailureAborts ==
    (Launching /\ \E i \in Issued("build") : ~calls[i].ok) =>
        /\ Exited /\ proc.exit = <<1>> /\ proc.err = "BuildFailed"
        /\ Cardinality(Issued("build")) = 1
        /\ Issued("run") = {} /\ Issued("open") = {}

C9_Witness ==
    /\ proc.script = "launch" /\ Exited /\ proc.err = "BuildFailed"
    /\ ~calls[Len(calls)].ok

\* C10: a launch or stop whose target directory (named, or the working directory by
\* default) has no world.json ends with exit code 1 (MissingDescriptor) without
\* having invoked docker at all.
TargetConfig == Join(Resolve(InputDir(proc.args)), "world.json")

C10_MissingDescriptorIsFatal ==
    (proc.script # "none" /\ proc.pc # "load" /\ ~ExistsSync(TargetConfig)) =>
        /\ Exited /\ proc.exit = <<1>> /\ proc.err = "MissingDescriptor"
        /\ calls = <<>>

C10_Witness ==
    /\ Stopping /\ Exited /\ proc.err = "MissingDescriptor"
    /\ proc.args = <<Positional("demo")>> /\ fs["demo"].descriptor = "missing"
    /\ \E c \in ContainerIds : running[c] = DemoImage

----------------------------------------------------------------------------
(* Properties of the portal *)

\* a subdirectory of the scan root whose world.json is there and parses
WellFormed(name) == name \in DOMAIN fs /\ fs[name].descriptor = "ok"

\* the well-formed subdirectories, in the order the file system lists the entries
WellFormedDirs == SelectSeq(ReaddirSync, WellFormed)

Directories(worlds) == [i \in DOMAIN worlds |-> worlds[i].directory]

\* a step in which loadWorlds runs from the start of the portal or on 'r'
Scans == portal'.scanned /\ (PortalInit \/ KeyRefresh)

\* what a step appended to this.worlds
Appended == SubSeq(portal'.worlds, Len(portal.worlds) + 1, Len(portal'.worlds))

\* C11: every scan (the first one and every 'r') yields one view for each
\* subdirectory whose world.json is there and parses, in the order of the directory
\* listing, and none for a plain file or for a subdirectory whose world.json is
\* missing or unparsable; such an entry does not end the scan, and the process goes
\* on unless no view at all was found.
C11_ScanListsWellFormedDirs ==
    [][Scans =>
         /\ Len(portal'.worlds) >= Len(portal.worlds)
         /\ Directories(Appended) = WellFormedDirs
         /\ portal'.pc = "exited" <=> portal'.worlds = <<>>]_vars

C11_Witness ==
    /\ portal.via = "init"
    /\ fs["alpha"].descriptor = "malformed" /\ fs["beta"].descriptor = "missing"
    /\ Directories(portal.worlds) = <<"gamma">>

\* the views a scan has to append when the docker ps of directory d succeeds iff
\* probes[d]: a failed docker ps counts as "not running"
FailOpenViews(probes) ==
    [i \in DOMAIN WellFormedDirs |->
       LET d == WellFormedDirs[i]
       IN  [directory |-> d, image |-> fs[d].world.image,
            isRunning |-> probes[d] /\ \E c \in ContainerIds : running[c] = fs[d].world.image]]

\* C12: in every scan a docker ps that fails leaves its world in the list, with
\* isRunning false, and the scan goes on to the next directory: what the scan appends
\* is, for some outcome of the docker ps calls, one view per well-formed directory
\* whose isRunning is true exactly when its docker ps succeeded and found a container.
C12_ProbeFailsOpen ==
    [][Scans => \E probes \in Probes : Appended = FailOpenViews(probes)]_vars

\* no container starts while the portal only scans, so a view that says "not
\* running" beside a running container of its image had a failed docker ps; the
\* view after it was probed with success
C12_Witness ==
    /\ portal.via = "init" /\ Len(portal.worlds) >= 2
    /\ portal.worlds[1].directory = "alpha" /\ ~portal.worlds[1].isRunning
    /\ Instances(DemoImage) # {}
    /\ portal.worlds[2].isRunning

\* C13: whenever a scan has just been completed, the list holds exactly one view per
\* well-formed directory (as many views as there are such directories).
C13_ListIsRederived ==
    (portal.pc = "listening" /\ portal.scanned) =>
        Directories(portal.worlds) = WellFormedDirs

\* the child operations the portal started that have not ended: launch children and
\* log streams that still run, and the world-stop.js held by execSync
InFlight ==
    Cardinality({k \in ChildSlots : portal.children[k].state \in {"spawned", "attached"}})
      + (IF portal.pc = "blocked" THEN 1 ELSE 0)

\* C14: while the portal handles input (between callbacks, and inside the execSync of
\* a stop), selectedIndex is an index of this.worlds: 0 <= selectedIndex <= length - 1,
\* whatever keys, child exits, timers and scans came before.
C14_SelectedIndexInRange ==
    portal.pc \in {"listening", "blocked"} =>
        /\ 0 <= portal.selectedIndex
        /\ portal.selectedIndex <= Len(portal.worlds) - 1

\* the cursor is on the last view of a list that a refresh made longer, while a
\* launch is in flight
C14_Witness ==
    /\ portal.pc = "listening" /\ portal.via = "key"
    /\ Len(portal.worlds) = 2 /\ portal.selectedIndex = 1
    /\ InFlight = 1

Smaller(a, b) == IF a <= b THEN a ELSE b
Larger(a, b) == IF a >= b THEN a ELSE b

\* C15: the 'down' key sets selectedIndex to min(length - 1, selectedIndex + 1) and
\* the 'up' key to max(0, selectedIndex - 1); neither changes the list.
C15_CursorMovesClamped ==
    [][/\ KeyDown => /\ portal'.selectedIndex =
                          Smaller(Len(portal.worlds) - 1, portal.selectedIndex + 1)
                     /\ portal'.worlds = portal.worlds
       /\ KeyUp => /\ portal'.selectedIndex = Larger(0, portal.selectedIndex - 1)
                   /\ portal'.worlds = portal.worlds]_vars

\* three worlds, the cursor moved from the first to the last
C15_Witness ==
    /\ portal.pc = "listening" /\ portal.via = "key"
    /\ Len(portal.worlds) = 3 /\ portal.selectedIndex = 2

\* C16: at most one child operation of the portal (launch child, log stream,
\* world-stop.js) is in flight at any time.
C16_OneChildInFlight == InFlight <= 1

\* C17: the slot of a launch child is only ever given up by the timer callback that
\* follows the child's exit, whatever the exit code, and that callback runs a whole
\* scan (one more view per well-formed directory) before it shows the list; the exit
\* itself only arms that timer.
C17_LaunchEndsInReloadedList ==
    [][\A k \in ChildSlots :
         /\ OnLaunchExit(k) =>
              /\ portal'.children[k].state = "settling"
              /\ portal'.worlds = portal.worlds /\ portal'.screen # "list"
         /\ (portal.children[k].kind = "launch" /\ portal'.children[k].kind # "launch") =>
              /\ portal.children[k].state = "settling"
              /\ portal'.scanned
              /\ Directories(Appended) = WellFormedDirs
              /\ portal'.screen = "list" /\ portal'.via = "launch-exit"
              /\ portal'.pc = "listening"]_vars

\* the list is back after a launch whose docker run had started a container
C17_Witness ==
    /\ portal.via = "launch-exit" /\ portal.scanned
    /\ Len(portal.worlds) = 2
    /\ \A k \in ChildSlots : portal.children[k].kind = "none"
    /\ \E c \in ContainerIds : running[c] = Gone

\* C18: the 's' key on a view whose isRunning is false starts no world-stop.js and
\* issues no docker call: it prints "World is not running", arms the timer that shows
\* the list again, and leaves the list, the cursor, the children and the containers
\* as they are.
C18_StopOnStoppedViewIsNoOp ==
    [][(KeyStop /\ ~Undefined(portal) /\ ~Selected(portal).isRunning) =>
         /\ proc' = proc /\ calls' = calls /\ running' = running
         /\ portal'.pc = "listening"
         /\ portal'.screen = "World is not running"
         /\ portal'.timers = portal.timers + 1
         /\ portal'.worlds = portal.worlds
         /\ portal'.selectedIndex = portal.selectedIndex
         /\ portal'.children = portal.children]_vars

\* the message is on the screen although a container of the world's image runs: the
\* view is older than the container
C18_Witness ==
    /\ portal.screen = "World is not running" /\ portal.timers = 1
    /\ ~Selected(portal).isRunning
    /\ Instances(Selected(portal).image) # {}
    /\ proc = Idle /\ calls = <<>>

\* C19: whenever the list is shown by the exit callback of a log stream, that
\* callback has run a scan first.
C19_LogsEndInReloadedList ==
    portal.via = "logs-exit" => portal.scanned

\* C20: once quit() has been called, no keypress moves the cursor, scans, or starts a
\* launch, a stop or a log stream.
C20_QuitIsTerminal ==
    [][portal.quitting =>
         /\ ~(KeyRefresh \/ KeyLaunch \/ KeyStop \/ KeyLogs)
         /\ portal'.selectedIndex = portal.selectedIndex]_vars

\* a launch child or a log stream of the portal that has not ended
Running(child) == child.kind \in {"launch", "logs"} /\ child.state \in {"spawned", "attached"}

\* C21: whenever the list is on the screen, no launch child and no log stream that
\* the portal started is still running: the list comes back only after the child
\* has ended.
C21_NoChildOutlivesListing ==
    portal.screen = "list" => \A k \in ChildSlots : ~Running(portal.children[k])

\* C22: the portal process never ends with a failure code: whatever happens to a
\* launch child, a world-stop.js or a log stream (it cannot be started, or it ends
\* with a non-zero code), the portal goes on or ends with exit code 0.
C22_LoopSurvivesActionFailure ==
    portal.pc = "exited" => portal.exit = <<0>>

----------------------------------------------------------------------------
(* Further properties of the launch and stop scripts *)

\* C23: a world-launch.js run whose browser opener failed to start does not end with
\* a failure code because of it.
C23_BrowserFailureNotFatal ==
    (WorldLaunch /\ \E i \in Issued("open") : ~calls[i].ok) =>
        ~(Exited /\ proc.exit # <<0>>)

\* C24: the step in which a launch script (either one) learns that its foreground
\* docker run ended with a non-zero code only reports the code: it sets no error,
\* and if the script ends with that step, it ends with exit code 0.
C24_NonZeroRunIsOnlyReported ==
    [][((WorldLaunchDockerExit \/ LaunchRunReturns)
          /\ ~proc.detached /\ proc'.code # <<0>>) =>
         /\ proc'.said \in {"docker-exited", "warn-exit-code"}
         /\ proc'.err = ""
         /\ proc'.pc = "exited" => proc'.exit = <<0>>]_vars

\* a cli world whose container was started and ended with a non-zero code
C24_Witness ==
    /\ WorldLaunch /\ Exited /\ proc.exit = <<0>>
    /\ proc.world.type = "cli" /\ proc.code = <<1>>
    /\ \E i \in Issued("run") : calls[i].ok

\* the port a launch has to use: the override when one is given, else the port of
\* the descriptor when it has one, else the default
EffectivePort ==
    IF GetArg(proc.args, "--port") # <<>> THEN ParseInt(GetArg(proc.args, "--port")[1])
    ELSE IF proc.world.port # <<>> THEN proc.world.port[1]
    ELSE DefaultPort

\* the -p arguments of an argument list
PortMaps(dockerArgs) ==
    {dockerArgs[i].v : i \in {j \in 1..Len(dockerArgs) : dockerArgs[j].f = "-p"}}

\* C25: every docker run of a launch (either script) for a web world maps exactly
\* the effective port to container port 80, and a run for a cli world maps no port.
C25_EffectivePortIsMapped ==
    (Launching /\ Loaded) =>
        \A a \in RunCalls :
            PortMaps(a) = IF proc.world.type = "web"
                          THEN {<<EffectivePort, ContainerPort>>} ELSE {}

\* C29: a world-stop.js run whose docker ps failed issues no docker stop and does
\* not fail: it ends with exit code 0, as if no container had been found.
C29_StopProbeFailsOpen ==
    (Stopping /\ \E i \in Issued("ps") : ~calls[i].ok) =>
        /\ Issued("stop") = {}
        /\ Exited => proc.exit = <<0>> /\ proc.err = ""

\* the older launch script
OlderLaunch == proc.script = "launch"

\* C31: no docker run of the older launch script for a cli world carries both -it and
\* -d, whether or not --detach or -d was given.
C31_OlderCliNeverDetached ==
    (OlderLaunch /\ Loaded /\ proc.world.type = "cli") =>
        \A a \in RunCalls : ~(HasFlag(a, "-it") /\ HasFlag(a, "-d"))

\* C32: a launch (either script) checks the image once; it invokes docker build
\* exactly when that check failed and the world directory has a Dockerfile, once and
\* right after the check; when the check succeeded no build is invoked and the
\* launch goes on to the type branch: docker run for a web or cli world, and
\* UnknownWorldType otherwise.
C32_BuildIffCheckFailsAndDockerfile ==
    (Launching /\ Loaded /\ Issued("inspect") # {}) =>
        LET inspectOk == calls[1].ok
            dockerfile == fs["demo"].dockerfile
        IN  /\ Issued("inspect") = {1}
            /\ Issued("build") \subseteq {2}
            /\ Issued("build") # {} => ~inspectOk /\ dockerfile
            /\ (~inspectOk /\ dockerfile) => proc.pc = "build" \/ Issued("build") # {}
            /\ inspectOk =>
                  /\ Issued("build") = {}
                  /\ proc.pc \in {"run", "running", "waiting", "exited"}
                  /\ IF KnownType(proc.world.type)
                     THEN proc.pc # "run" => Issued("run") = {2}
                     ELSE Issued("run") = {}
                            /\ (Exited => proc.err = "UnknownWorldType")

\* the image was missing and was built, and the container was started
C32_Witness ==
    /\ WorldLaunch /\ Len(calls) >= 3
    /\ calls[1].op = "inspect" /\ ~calls[1].ok
    /\ calls[2].op = "build" /\ calls[2].ok
    /\ calls[3].op = "run" /\ calls[3].ok
    /\ DemoImage \in images

\* C33: in world-launch.js the browser timer is armed exactly by the step that
\* spawns docker run for a web world, detached or not, and fires once, whether or
\* not docker run has ended by then; the browser is opened for the port that the
\* run publishes to container port 80.  A cli world, and a launch that ends before
\* docker run, never arm the timer and never open a browser.
C33_BrowserOpensOncePerWebRun ==
    (WorldLaunch /\ Loaded) =>
        /\ Cardinality(Issued("open")) <= 1
        /\ (proc.world.type = "web" /\ Issued("run") # {}) =>
              /\ proc.timer \in {"pending", "fired"}
              /\ proc.timer = "fired" <=> Issued("open") # {}
              /\ proc.pc = "exited" => proc.timer = "fired"
        /\ (proc.world.type # "web" \/ Issued("run") = {}) =>
              proc.timer = "none" /\ Issued("open") = {}
        /\ \A i \in Issued("open") :
              \E j \in Issued("run") :
                 j < i /\ PortMaps(calls[j].arg) = {<<calls[i].arg[1], ContainerPort>>}

\* the browser was opened for the overriding port while the container of a
\* foreground launch is still running
C33_Witness ==
    /\ WorldLaunch /\ proc.world.type = "web" /\ ~proc.detached
    /\ proc.child = "running" /\ proc.cid # 0 /\ running[proc.cid] = DemoImage
    /\ \E i \in Issued("open") : calls[i].ok /\ calls[i].arg = <<7000>>

\* C34: a detached launch (either script) that has invoked docker run reports
\* "detached world running" once docker run has returned, whatever its code, never
\* warns, and never ends with a non-zero exit code.
C34_DetachedLaunchAlwaysSucceeds ==
    (Launching /\ Loaded /\ proc.detached /\ Issued("run") # {}) =>
        /\ proc.child = "exited" => proc.said = "detached-running"
        /\ proc.said # "warn-exit-code"
        /\ Exited => proc.exit = <<0>>

\* C35: a launch (either script) of a world whose type is neither web nor cli makes
\* no docker build and no docker run.
C35_UnknownTypeNeverBuilds ==
    (Launching /\ Loaded /\ ~(proc.world.type \in {"web", "cli"})) =>
        Issued("build") = {} /\ Issued("run") = {}

\* C36: the number in the final "container(s) stopped" line of world-stop.js is the
\* number of docker stop calls of the run that succeeded.
C36_SummaryCountsStopped ==
    (Stopping /\ proc.reported # <<>>) =>
        proc.reported[1] = Cardinality({i \in Issued("stop") : calls[i].ok})

\* C37: every directory that world-init.js has created has a world.json of type web
\* or cli and a Dockerfile, whatever was passed as --type; and in a working
\* directory that holds only such directories no world-launch.js run ends with
\* UnknownWorldType or MissingBuildContext.
C37_ScaffoldIsLaunchable ==
    /\ (proc.script = "world-init" /\ Exited /\ proc.exit = <<0>>) =>
          LET root == fs[proc.args[1].val]
          IN  /\ root.descriptor = "ok"
              /\ root.world.type \in {"web", "cli"}
              /\ root.dockerfile
    /\ (WorldLaunch /\ Exited) =>
          ~(proc.err \in {"UnknownWorldType", "MissingBuildContext"})

\* C38: the push script prints its success line only after a docker push that ended
\* with status 0; a failed docker tag ends the script with exit code 1 before any
\* docker push.
C38_PushSuccessOnlyOnStatusZero ==
    proc.script = "world-push" =>
        /\ (\E i \in DOMAIN proc.lines : proc.lines[i] = "pushed-successfully") =>
              \E i \in Issued("push") : calls[i].ok
        /\ (\E i \in Issued("tag") : ~calls[i].ok) =>
              /\ Exited /\ proc.exit = <<1>> /\ Issued("push") = {}

----------------------------------------------------------------------------
(* Further properties of the portal *)

\* C26: the keypress handler is only ever installed over a non-empty list whose
\* entry at selectedIndex is defined; a first scan that finds no world ends the
\* process with exit code 0 before the list is shown or a key is handled, and a
\* first scan that finds one goes on to the list.
C26_InputOnlyOverNonEmptyList ==
    /\ portal.pc = "listening" => portal.worlds # <<>> /\ ~Undefined(portal)
    /\ portal.pc = "exited" =>
          /\ portal.worlds = <<>> /\ portal.exit = <<0>>
          /\ portal.screen = "none" /\ portal.selectedIndex = 0
    /\ portal.pc # "start" => (portal.pc = "exited" <=> WellFormedDirs = <<>>)

\* no world among three directories, beside a running container
C26_Witness ==
    /\ portal.pc = "exited" /\ portal.exit = <<0>> /\ portal.worlds = <<>>
    /\ fs["alpha"].descriptor = "malformed" /\ fs["beta"].descriptor = "missing"
    /\ fs["gamma"].descriptor = "malformed"
    /\ Instances(OtherImage) # {}

\* C27: an 'up' or 'down' key changes nothing but selectedIndex and the screen (the
\* list is drawn again): the list with every view, the children, the timers, the
\* containers, the images and the world-stop.js process are as before, and no
\* docker call is made.
C27_CursorKeysOnlyMoveCursor ==
    [][(KeyUp \/ KeyDown) =>
         /\ portal'.worlds = portal.worlds
         /\ portal'.children = portal.children
         /\ portal'.timers = portal.timers
         /\ portal'.pc = portal.pc /\ portal'.quitting = portal.quitting
         /\ portal'.screen = "list"
         /\ UNCHANGED <<fs, images, running, proc, calls, prev, dirty>>]_vars

\* the cursor was moved while a launch child runs, and the selected view still says
\* "running" although no container of its image is left
C27_Witness ==
    /\ portal.via = "key" /\ portal.selectedIndex = 1
    /\ \E k \in ChildSlots : Running(portal.children[k])
    /\ \E i \in DOMAIN portal.worlds :
          portal.worlds[i].isRunning /\ Instances(portal.worlds[i].image) = {}

\* the view that the latest scan made of the selected world's directory: the last
\* one of that directory in the list
Fresh(p) ==
    LET same == {i \in DOMAIN p.worlds : p.worlds[i].directory = Selected(p).directory}
    IN  p.worlds[CHOOSE i \in same : \A j \in same : j <= i]

\* C28: when the list is shown by the reload that follows a world-stop.js run, the
\* view at selectedIndex has the isRunning that this reload's docker ps gave for its
\* world.
C28_SelectedViewIsReprobed ==
    portal.via = "stop" => Selected(portal).isRunning = Fresh(portal).isRunning

\* C30: every 'l' key that the portal survives leaves behind something that will
\* draw the list again: a log stream, whose exit callback shows the list, or a
\* timer that shows it; and when no container of the selected world is found, the
\* key reports that the world is not running.
C30_LogsLeadBackToListing ==
    [][(KeyLogs /\ portal'.pc = "listening") =>
         \/ \E k \in ChildSlots :
              portal.children[k].kind = "none" /\ portal'.children[k].kind = "logs"
         \/ /\ portal'.timers = portal.timers + 1
            /\ portal'.screen = "World must be running to view logs"]_vars

====
